---- MODULE Spec2Model ----
(***************************************************************************)
(* Model of the terminal-cv interaction core:                              *)
(*   - ArrowSelection (utils/arrowSelection.ts), the cyclic menu cursor;    *)
(*   - SnakeGame (components/SnakeGame.tsx), the fixed-tick grid game;      *)
(*   - Console, the host component that opens the games menu and mounts    *)
(*     and unmounts the game.                                               *)
(* Each component has its own specification over the shared variables.     *)
(***************************************************************************)
EXTENDS Integers, Sequences, FiniteSets, TLC

VARIABLES items, currentIndex, hasOnExit, lastOp

VARIABLES snake, apple, score, count, listening, snakeLast, ticks, keys, trail

menuVars == <<items, currentIndex, hasOnExit, lastOp>>

snakeVars ==
    <<snake, apple, score, count, listening, snakeLast, ticks, keys, trail>>

VARIABLES isGamesMode, isPlayingGame, selectedGame, gamesTimers, effects,
          attached, loops, added, removed, hostLast

VARIABLES input, history, tabIndex, commandHistory, historyIndex, promptLast

hostVars ==
    <<isGamesMode, isPlayingGame, selectedGame, gamesTimers, effects,
      attached, loops, added, removed, hostLast>>

consoleVars ==
    <<input, history, tabIndex, commandHistory, historyIndex, promptLast>>

VARIABLES themes, currentTheme, customColors, style, storage, lastSet,
          settingsLast

settingsVars ==
    <<themes, currentTheme, customColors, style, storage, lastSet,
      settingsLast>>

vars == <<menuVars, snakeVars, hostVars, consoleVars, settingsVars>>

----------------------------------------------------------------------------
(* Bounds of the menu model *)

\* longest item list the model builds
MaxLen == 3

\* number of distinct item ids the model draws from
NumIds == 2

----------------------------------------------------------------------------
(* SelectableItem values *)

\* an optional value: Undefined when absent, Some(v) when present
Undefined == <<>>

Some(v) == <<v>>

Optional(S) == {Undefined} \cup {Some(v) : v \in S}

AllIds == <<"snake", "pong", "tetris", "mines", "chess">>

Ids == {AllIds[i] : i \in 1..NumIds}

\* item names as character sequences
Names == {<<"S", "n">>, <<"P">>}

\* item descriptions: absent, or a character sequence
Descriptions == Optional({<<"d">>})

SelectableItem == [id : Ids, name : Names, description : Descriptions]

\* Partial<SelectableItem>: each property either absent or given
Updates == [id : Optional(Ids), name : Optional(Names),
            description : Descriptions]

\* number of properties an update sets
UpdateSize(u) ==
    (IF u.id = Undefined THEN 0 ELSE 1) + (IF u.name = Undefined THEN 0 ELSE 1)
      + (IF u.description = Undefined THEN 0 ELSE 1)

\* the updates the model applies: at most one property at a time
SmallUpdates == {u \in Updates : UpdateSize(u) <= 1}

\* item lists with pairwise distinct ids, as the data model prescribes
DistinctIds(s) == \A i, j \in 1..Len(s) : i # j => s[i].id # s[j].id

ItemLists == UNION {[1..n -> SelectableItem] : n \in 0..MaxLen}

----------------------------------------------------------------------------
(* JavaScript array helpers *)

\* arr[i] with a 0-based index: undefined outside the array
At(arr, i) == IF i >= 0 /\ i < Len(arr) THEN Some(arr[i + 1]) ELSE Undefined

\* Array.prototype.filter
RECURSIVE Filter(_, _)
Filter(arr, id) ==
    IF arr = <<>> THEN <<>>
    ELSE IF Head(arr).id # id THEN <<Head(arr)>> \o Filter(Tail(arr), id)
         ELSE Filter(Tail(arr), id)

\* Array.prototype.findIndex, 0-based, -1 when absent
RECURSIVE FindIndexFrom(_, _, _)
FindIndexFrom(arr, id, k) ==
    IF k >= Len(arr) THEN -1
    ELSE IF arr[k + 1].id = id THEN k
         ELSE FindIndexFrom(arr, id, k + 1)

FindIndex(arr, id) == FindIndexFrom(arr, id, 0)

\* object spread { ...item, ...updates }
Spread(item, u) ==
    [id          |-> IF u.id = Undefined THEN item.id ELSE u.id[1],
     name        |-> IF u.name = Undefined THEN item.name ELSE u.name[1],
     description |-> IF u.description = Undefined THEN item.description
                     ELSE u.description]

Max(a, b) == IF a >= b THEN a ELSE b

\* String.prototype.padEnd with spaces
PadEnd(s, n) == IF Len(s) >= n THEN s ELSE s \o [i \in 1..(n - Len(s)) |-> " "]

----------------------------------------------------------------------------
(* ArrowSelection *)

\* what the last operation was and what it did; first marks the first
\* operation after construction
Op(name, calls, exits) ==
    [op |-> name, idxBefore |-> currentIndex, lenBefore |-> Len(items),
     selectCalls |-> calls, exitCalls |-> exits, first |-> lastOp.op = "new"]

MenuInit ==
    /\ items \in {s \in ItemLists : DistinctIds(s)}
    /\ currentIndex = 0
    /\ hasOnExit \in BOOLEAN
    /\ lastOp = [op |-> "new", idxBefore |-> 0, lenBefore |-> Len(items),
                 selectCalls |-> <<>>, exitCalls |-> 0, first |-> FALSE]

\* moveUp without the wrap to the last item
MoveUpIndexNoWrap(idx, arr) == IF idx > 0 THEN idx - 1 ELSE 0

MoveUpIndex(idx, arr) == IF idx > 0 THEN idx - 1 ELSE Len(arr) - 1

moveUp ==
    /\ currentIndex' = MoveUpIndex(currentIndex, items)
    /\ lastOp' = Op("moveUp", <<>>, 0)
    /\ UNCHANGED <<items, hasOnExit>>
    /\ UNCHANGED <<snakeVars, hostVars, consoleVars, settingsVars>>

MoveDownIndex(idx, arr) == IF idx < Len(arr) - 1 THEN idx + 1 ELSE 0

moveDown ==
    /\ currentIndex' = MoveDownIndex(currentIndex, items)
    /\ lastOp' = Op("moveDown", <<>>, 0)
    /\ UNCHANGED <<items, hasOnExit>>
    /\ UNCHANGED <<snakeVars, hostVars, consoleVars, settingsVars>>

\* select() without the test that an item is there
SelectCallsUnguarded(arr, idx) == <<At(arr, idx)>>

\* the onSelect invocations select() makes, as the list of their arguments
SelectCalls(arr, idx) == IF At(arr, idx) # Undefined THEN <<At(arr, idx)[1]>> ELSE <<>>

select ==
    /\ lastOp' = Op("select", SelectCalls(items, currentIndex), 0)
    /\ UNCHANGED <<items, currentIndex, hasOnExit>>
    /\ UNCHANGED <<snakeVars, hostVars, consoleVars, settingsVars>>

\* exit() without the test that onExit was provided
ExitCallsUnguarded(provided) == 1

\* the number of onExit invocations exit() makes
ExitCalls(provided) == IF provided THEN 1 ELSE 0

exit ==
    /\ lastOp' = Op("exit", <<>>, ExitCalls(hasOnExit))
    /\ UNCHANGED <<items, currentIndex, hasOnExit>>
    /\ UNCHANGED <<snakeVars, hostVars, consoleVars, settingsVars>>

addItem(item) ==
    /\ Len(items) < MaxLen
    /\ items' = Append(items, item)
    /\ lastOp' = Op("addItem", <<>>, 0)
    /\ UNCHANGED <<currentIndex, hasOnExit>>
    /\ UNCHANGED <<snakeVars, hostVars, consoleVars, settingsVars>>

RemoveIndex(idx, arr) == IF idx >= Len(arr) THEN Max(0, Len(arr) - 1) ELSE idx

removeItem(id) ==
    /\ items' = Filter(items, id)
    /\ currentIndex' = RemoveIndex(currentIndex, items')
    /\ lastOp' = Op("removeItem", <<>>, 0)
    /\ UNCHANGED hasOnExit
    /\ UNCHANGED <<snakeVars, hostVars, consoleVars, settingsVars>>

UpdatedItems(arr, id, u) ==
    LET index == FindIndex(arr, id)
    IN IF index # -1 THEN [arr EXCEPT ![index + 1] = Spread(arr[index + 1], u)]
       ELSE arr

updateItem(id, u) ==
    /\ items' = UpdatedItems(items, id, u)
    /\ lastOp' = Op("updateItem", <<>>, 0)
    /\ UNCHANGED <<currentIndex, hasOnExit>>
    /\ UNCHANGED <<snakeVars, hostVars, consoleVars, settingsVars>>

\* getDisplayText: one line per item, each line a character sequence
ItemLine(item, index, idx) ==
    LET prefix == IF index = idx THEN ">" ELSE " "
        name == PadEnd(item.name, 21)
        description == IF item.description = Undefined THEN <<>>
                       ELSE item.description[1]
    IN <<" ", " ", prefix, " ">> \o name \o <<" ", "-", " ">> \o description

\* Array.prototype.join("\n") seen as lines: an empty array joins to one empty line
JoinLines(lines) == IF lines = <<>> THEN << <<>> >> ELSE lines

getDisplayText(arr, idx) ==
    LET itemsList == [i \in 1..Len(arr) |-> ItemLine(arr[i], i - 1, idx)]
    IN << <<"title">>, <<"=====================================">>, <<>>,
          <<"instructions">>, <<>> >>
       \o JoinLines(itemsList)
       \o << <<>>, <<"Navigation:">>, <<"Arrow Keys">>, <<"Enter">>,
             <<"Ctrl+C">>, <<>>, <<"Ready to select?">> >>

MenuNext ==
    \/ moveUp
    \/ moveDown
    \/ select
    \/ exit
    \/ \E item \in SelectableItem : addItem(item)
    \/ \E id \in Ids : removeItem(id)
    \/ \E id \in Ids, u \in SmallUpdates : updateItem(id, u)

\* menus of plain items over one more id: long enough lists of distinct ids
MoreIds == {AllIds[i] : i \in 1..(NumIds + 1)}

PlainItems == [id : MoreIds, name : {<<"P">>}, description : {Undefined}]

PlainItemLists == UNION {[1..n -> PlainItems] : n \in 0..MaxLen}

PlainMenuInit ==
    /\ items \in {s \in PlainItemLists : DistinctIds(s)}
    /\ currentIndex = 0
    /\ hasOnExit = FALSE
    /\ lastOp = [op |-> "new", idxBefore |-> 0, lenBefore |-> Len(items),
                 selectCalls |-> <<>>, exitCalls |-> 0, first |-> FALSE]

\* navigation, additions and removals on such a menu
PlainMenuNext ==
    \/ moveUp
    \/ moveDown
    \/ \E item \in PlainItems : addItem(item)
    \/ \E id \in MoreIds : removeItem(id)


----------------------------------------------------------------------------
(* Bounds of the Snake model *)

\* simulation ticks explored
MaxTicks == 5

\* key events explored
MaxKeys == 3

\* the random cell indices explored lie within RandSpan of the start cell
RandSpan == 1

\* simulation ticks explored in the long runs
RunTicks == 16

\* key events explored in the long runs
RunKeys == 1

----------------------------------------------------------------------------
(* SnakeGame *)

grid == 16

CanvasWidth == 400

CanvasHeight == 400

\* frames per simulation step
FramesPerTick == 6

StartX == 160

StartY == 160

StartMaxCells == 4

BoardCells == 25

\* getRandomInt(0, 25): the values the model draws
RandInts == {v \in 0..(BoardCells - 1) : v >= 10 - RandSpan /\ v <= 10 + RandSpan}

\* keyboard events: the legacy key code, the key value and the Ctrl modifier
KeyEvents ==
    { [which |-> 37, key |-> "ArrowLeft", ctrlKey |-> FALSE],
      [which |-> 38, key |-> "ArrowUp", ctrlKey |-> FALSE],
      [which |-> 39, key |-> "ArrowRight", ctrlKey |-> FALSE],
      [which |-> 40, key |-> "ArrowDown", ctrlKey |-> FALSE],
      [which |-> 82, key |-> "r", ctrlKey |-> FALSE],
      [which |-> 82, key |-> "R", ctrlKey |-> FALSE],
      [which |-> 81, key |-> "q", ctrlKey |-> FALSE],
      [which |-> 81, key |-> "Q", ctrlKey |-> FALSE],
      [which |-> 67, key |-> "c", ctrlKey |-> TRUE],
      [which |-> 67, key |-> "c", ctrlKey |-> FALSE] }

\* the game state the handlers work on, with a log of what one callback
\* did to it: the resetGame calls and the apples eaten
GameState ==
    [snake |-> snake, apple |-> apple, score |-> score, resets |-> 0, eats |-> 0]

\* a restart that keeps the score
resetGameKeepsScore(st) ==
    { [st EXCEPT !.snake = [x |-> StartX, y |-> StartY, cells |-> <<>>,
                            maxCells |-> StartMaxCells, dx |-> grid, dy |-> 0],
                 !.apple = [x |-> rx * grid, y |-> ry * grid],
                 !.resets = @ + 1] : rx \in RandInts, ry \in RandInts }

\* resetGame: every outcome of the two random draws
resetGame(st) ==
    { [st EXCEPT !.snake = [x |-> StartX, y |-> StartY, cells |-> <<>>,
                            maxCells |-> StartMaxCells, dx |-> grid, dy |-> 0],
                 !.apple = [x |-> rx * grid, y |-> ry * grid],
                 !.score = 0,
                 !.resets = @ + 1] : rx \in RandInts, ry \in RandInts }

\* the snake moved by its velocity and wrapped at the canvas edges
WrapX(x) == IF x < 0 THEN CanvasWidth - grid
            ELSE IF x >= CanvasWidth THEN 0 ELSE x

\* the vertical wrap landing one cell below the board
WrapYOffBoard(y) == IF y < 0 THEN CanvasHeight
                    ELSE IF y >= CanvasHeight THEN 0 ELSE y

WrapY(y) == IF y < 0 THEN CanvasHeight - grid
            ELSE IF y >= CanvasHeight THEN 0 ELSE y

\* the tail popped one step too early
TrackCellsEager(cells, head, maxCells) ==
    LET grown == <<head>> \o cells
    IN IF Len(grown) >= maxCells THEN SubSeq(grown, 1, Len(grown) - 1) ELSE grown

\* the tail never popped
TrackCellsNoPop(cells, head, maxCells) == <<head>> \o cells

\* unshift the head, then pop the tail when the snake is too long
TrackCells(cells, head, maxCells) ==
    LET grown == <<head>> \o cells
    IN IF Len(grown) > maxCells THEN SubSeq(grown, 1, Len(grown) - 1) ELSE grown

MoveSnake(sn) ==
    LET nx == WrapX(sn.x + sn.dx)
        ny == WrapY(sn.y + sn.dy)
    IN [sn EXCEPT !.x = nx, !.y = ny,
                  !.cells = TrackCells(sn.cells, [x |-> nx, y |-> ny], sn.maxCells)]

\* "Snake ate apple": the outcomes of the apple test for one cell
EatApple(cell, st) ==
    IF cell.x = st.apple.x /\ cell.y = st.apple.y
    THEN { [st EXCEPT !.snake.maxCells = @ + 1, !.score = @ + 10,
                      !.apple = [x |-> rx * grid, y |-> ry * grid],
                      !.eats = @ + 1]
           : rx \in RandInts, ry \in RandInts }
    ELSE {st}

\* the collision loop of one cell; it reads the live snake.cells
CheckCollision(cell, index, st) ==
    IF \E i \in (index + 1)..(Len(st.snake.cells) - 1) :
          cell.x = st.snake.cells[i + 1].x /\ cell.y = st.snake.cells[i + 1].y
    THEN resetGame(st)
    ELSE {st}

\* the forEach callback for the cell at index of the array being iterated
VisitCell(cells, index, st) ==
    UNION { CheckCollision(cells[index + 1], index, s)
            : s \in EatApple(cells[index + 1], st) }

\* snake.cells.forEach: iterates the array it was called on, also after a
\* reset has replaced snake.cells
RECURSIVE ForEachCell(_, _, _)
ForEachCell(cells, index, sts) ==
    IF index >= Len(cells) THEN sts
    ELSE ForEachCell(cells, index + 1,
                     UNION { VisitCell(cells, index, s) : s \in sts })

\* one simulation step: every state it may end in
Tick(st) ==
    LET moved == [st EXCEPT !.snake = MoveSnake(st.snake)]
    IN ForEachCell(moved.snake.cells, 0, {moved})

\* what the last callback was and what it found: the state before it, and
\* for a simulation step the velocity it applied, the velocity of the step
\* before it, whether the moved head met the apple, and the step's log
SnakeEvent(name, e) ==
    [ev |-> name, key |-> e, dxBefore |-> snake.dx, dyBefore |-> snake.dy,
     xBefore |-> snake.x, yBefore |-> snake.y,
     scoreBefore |-> score, maxBefore |-> snake.maxCells,
     velPrev |-> trail.vel, headOnApple |-> FALSE, resets |-> 0, eats |-> 0,
     exitCalls |-> 0]

NoKey == [which |-> 0, key |-> "", ctrlKey |-> FALSE]

\* no simulation step was made since the game was (re)started
NoVel == <<0, 0>>

\* the run since the last (re)start: the steps made, the sum of the
\* velocities they applied, and the velocity of the last step
FreshTrail == [age |-> 0, dx |-> 0, dy |-> 0, vel |-> NoVel]

\* the state once the mount effect has run: it calls gameLoop() once itself,
\* which counts the first frame, and attaches the key listener
SnakeInit ==
    /\ snake = [x |-> StartX, y |-> StartY, dx |-> grid, dy |-> 0,
                cells |-> <<>>, maxCells |-> StartMaxCells]
    /\ apple = [x |-> 320, y |-> 320]
    /\ score = 0
    /\ count = 1
    /\ listening = TRUE
    /\ trail = FreshTrail
    /\ snakeLast = [ev |-> "mount", key |-> NoKey, dxBefore |-> grid,
                    dyBefore |-> 0, xBefore |-> StartX, yBefore |-> StartY,
                    scoreBefore |-> 0, maxBefore |-> StartMaxCells,
                    velPrev |-> NoVel, headOnApple |-> FALSE, resets |-> 0,
                    eats |-> 0, exitCalls |-> 0]
    /\ ticks = 0
    /\ keys = 0

\* the frame test made with the count before its increment
IsTickFrameLate(c) == ~(c < FramesPerTick)

\* the frame on which gameLoop runs a simulation step
IsTickFrame(c) == ~(c + 1 < FramesPerTick)

\* gameLoop: one animation frame callback, within maxTicks simulation steps
gameLoopWithin(maxTicks) ==
    /\ ticks < maxTicks
    /\ IF ~IsTickFrame(count)
       THEN /\ count' = count + 1
            /\ snakeLast' = SnakeEvent("frame", NoKey)
            /\ UNCHANGED <<snake, apple, score, ticks, trail>>
       ELSE /\ count' = 0
            /\ ticks' = ticks + 1
            /\ \E st \in Tick(GameState) :
                  /\ snake' = st.snake
                  /\ apple' = st.apple
                  /\ score' = st.score
                  /\ snakeLast' =
                        [SnakeEvent("tick", NoKey) EXCEPT
                            !.headOnApple =
                                (MoveSnake(snake).x = apple.x
                                   /\ MoveSnake(snake).y = apple.y),
                            !.resets = st.resets,
                            !.eats = st.eats]
                  /\ trail' = IF st.resets > 0 THEN FreshTrail
                              ELSE [age |-> trail.age + 1,
                                    dx |-> trail.dx + snake.dx,
                                    dy |-> trail.dy + snake.dy,
                                    vel |-> <<snake.dx, snake.dy>>]
    /\ UNCHANGED <<listening, keys>>
    /\ UNCHANGED <<menuVars, hostVars, consoleVars, settingsVars>>

gameLoop == gameLoopWithin(MaxTicks)

\* handleKeyDown without the tests that prevent backtracking
KeyBranchAnyAxis(e, sn) ==
    IF e.which = 37 THEN "left"
    ELSE IF e.which = 38 THEN "up"
    ELSE IF e.which = 39 THEN "right"
    ELSE IF e.which = 40 THEN "down"
    ELSE IF e.key = "r" \/ e.key = "R" THEN "restart"
    ELSE IF e.key = "q" \/ e.key = "Q" \/ (e.ctrlKey /\ e.key = "c") THEN "quit"
    ELSE "none"

\* the branch of handleKeyDown's else-if chain that an event takes
KeyBranch(e, sn) ==
    IF e.which = 37 /\ sn.dx = 0 THEN "left"
    ELSE IF e.which = 38 /\ sn.dy = 0 THEN "up"
    ELSE IF e.which = 39 /\ sn.dx = 0 THEN "right"
    ELSE IF e.which = 40 /\ sn.dy = 0 THEN "down"
    ELSE IF e.key = "r" \/ e.key = "R" THEN "restart"
    ELSE IF e.key = "q" \/ e.key = "Q" \/ (e.ctrlKey /\ e.key = "c") THEN "quit"
    ELSE "none"

\* the velocity an accepted arrow key sets
Steer(branch, sn) ==
    CASE branch = "left" -> [sn EXCEPT !.dx = -grid, !.dy = 0]
      [] branch = "up" -> [sn EXCEPT !.dy = -grid, !.dx = 0]
      [] branch = "right" -> [sn EXCEPT !.dx = grid, !.dy = 0]
      [] branch = "down" -> [sn EXCEPT !.dy = grid, !.dx = 0]
      [] OTHER -> sn

\* handleKeyDown, with the host unmounting the game when onExit is called;
\* within maxKeys key events
handleKeyDownWithin(e, maxKeys) ==
    LET branch == KeyBranch(e, snake)
    IN /\ listening
       /\ keys < maxKeys
       /\ keys' = keys + 1
       /\ IF branch = "restart"
          THEN /\ \E st \in resetGame(GameState) :
                     /\ snake' = st.snake
                     /\ apple' = st.apple
                     /\ score' = st.score
               /\ snakeLast' = [SnakeEvent("key", e) EXCEPT !.resets = 1]
               /\ trail' = FreshTrail
               /\ UNCHANGED listening
          ELSE IF branch = "quit"
          THEN /\ snakeLast' = [SnakeEvent("key", e) EXCEPT !.exitCalls = 1]
               /\ listening' = FALSE
               /\ UNCHANGED <<snake, apple, score, trail>>
          ELSE /\ snake' = Steer(branch, snake)
               /\ snakeLast' = SnakeEvent("key", e)
               /\ UNCHANGED <<apple, score, listening, trail>>
       /\ UNCHANGED <<count, ticks>>
       /\ UNCHANGED <<menuVars, hostVars, consoleVars, settingsVars>>

handleKeyDown(e) == handleKeyDownWithin(e, MaxKeys)

SnakeNext ==
    \/ gameLoop
    \/ \E e \in KeyEvents : handleKeyDown(e)

\* the same callbacks in long runs with few key events
gameLoopRun == gameLoopWithin(RunTicks)

handleKeyDownRun(e) == handleKeyDownWithin(e, RunKeys)

SnakeRunNext ==
    \/ gameLoopRun
    \/ \E e \in KeyEvents : handleKeyDownRun(e)

----------------------------------------------------------------------------
(* Console: the prompt *)

\* commands are executed while the history is shorter than this
MaxHistory == 4

\* most Tab presses followed in a row
MaxTabs == 3

\* a history entry; its content is a list of lines, a line a list of strings
HistoryItem(type, content) == [type |-> type, content |-> content]

\* addToHistory: one more entry at the end
AddToHistory(h, type, content) == Append(h, HistoryItem(type, content))

\* command lines are sequences of characters

\* the command line "games", character by character
GamesCommand == <<"g", "a", "m", "e", "s">>

\* String.prototype.trim
RECURSIVE TrimStart(_)
TrimStart(s) == IF s # <<>> /\ Head(s) = " " THEN TrimStart(Tail(s)) ELSE s

RECURSIVE TrimEnd(_)
TrimEnd(s) ==
    IF s # <<>> /\ s[Len(s)] = " " THEN TrimEnd(SubSeq(s, 1, Len(s) - 1)) ELSE s

Trim(s) == TrimEnd(TrimStart(s))

\* String.prototype.startsWith
StartsWith(s, prefix) ==
    Len(s) >= Len(prefix) /\ SubSeq(s, 1, Len(prefix)) = prefix

\* String.prototype.substring(n)
Substring(s, n) == SubSeq(s, n + 1, Len(s))

\* String.prototype.toLowerCase on the letters the model types
LowerChar(c) ==
    CASE c = "C" -> "c" [] c = "H" -> "h" [] c = "O" -> "o" [] OTHER -> c

ToLowerCase(s) == [i \in 1..Len(s) |-> LowerChar(s[i])]

\* String.prototype.split(' '): the pieces between the spaces
RECURSIVE SplitFrom(_, _)
SplitFrom(s, piece) ==
    IF s = <<>> THEN <<piece>>
    ELSE IF Head(s) = " " THEN <<piece>> \o SplitFrom(Tail(s), <<>>)
         ELSE SplitFrom(Tail(s), Append(piece, Head(s)))

Split(s) == SplitFrom(s, <<>>)

ClearCommand == <<"c", "l", "e", "a", "r">>

HelpCommand == <<"h", "e", "l", "p">>

ResetCommand == <<"r", "e", "s", "e", "t">>

OpenPrefix == <<"o", "p", "e", "n", " ">>

\* the prefixes of the settings commands
SettingPrefixes ==
    { <<"t", "h", "e", "m", "e", " ">>,
      <<"c", "o", "l", "o", "r", " ">>,
      <<"f", "o", "n", "t", " ", "s", "i", "z", "e", " ">>,
      <<"o", "p", "a", "c", "i", "t", "y", " ">> }

experienceFiles ==
    << <<"e", "l", "e", "g", "a", "n", "t", "-", "h", "o", "o", "p", "o", "e">>,
       <<"z", "-", "p", "r", "i", "m", "e">>,
       <<"b", "i", "t", "c", "i", "a", "l">>,
       <<"s", "g", "b", "-", "t", "r", "a", "d", "i", "n", "g">>,
       <<"b", "a", "r", "c", "o", "d", "e">> >>

projectFiles ==
    << <<"s", "c", "r", "u", "b", "b", "e", "r", "s">>,
       <<"c", "y", "p", "u", "n", "k", "s">>,
       <<"s", "t", "e", "a", "c", "h">>,
       <<"c", "o", "i", "n", "o", "v", "e", "r", "s", "e">> >>

gameFiles == << <<"s", "n", "a", "k", "e">> >>

allFiles == experienceFiles \o projectFiles \o gameFiles

Range(seq) == {seq[i] : i \in 1..Len(seq)}

\* the names CommandSystem registers, among the lines the model executes
CommandNames == {HelpCommand, ClearCommand, GamesCommand} \cup Range(allFiles)

HelpText == << <<"Available Commands:">> >>

DetailsText == << <<"details">> >>

SettingsText == << <<"settings">> >>

FileNotFoundText == << <<"File not found">> >>

CommandNotFoundText == << <<"Command not found">> >>

\* the lines the user types into the input
TypedInputs ==
    { ClearCommand, HelpCommand, OpenPrefix, OpenPrefix \o <<"s">>, <<"x">> }

\* handleKeyPressWrapper hands executeCommand eleven arguments: the twelfth
\* parameter, clearHistory, is undefined
HasClearHistory == FALSE

\* executeCommand on a command other than games: the history it leaves, and
\* whether it threw
ExecuteCommand(command, h) ==
    LET lower == ToLowerCase(command)
    IN IF lower \in CommandNames
       THEN IF lower = ClearCommand
            THEN IF HasClearHistory THEN [history |-> <<>>, threw |-> FALSE]
                 ELSE [history |-> h, threw |-> TRUE]
            ELSE [history |-> AddToHistory(h, "output",
                                 IF lower = HelpCommand THEN HelpText
                                 ELSE DetailsText),
                  threw |-> FALSE]
       ELSE IF (\E prefix \in SettingPrefixes : StartsWith(lower, prefix))
               \/ lower = ResetCommand
       THEN [history |-> AddToHistory(h, "output", SettingsText),
             threw |-> FALSE]
       ELSE IF StartsWith(lower, OpenPrefix)
       THEN [history |-> AddToHistory(h, "output",
                            IF Split(lower)[2] \in Range(allFiles)
                            THEN DetailsText ELSE FileNotFoundText),
             threw |-> FALSE]
       ELSE [history |-> AddToHistory(h, "output", CommandNotFoundText),
             threw |-> FALSE]

\* what the last prompt event was and what it found; tabRun counts the Tab
\* presses in a row since one found the input to be exactly 'open ', tabStart
\* is the tab index that press found
PromptEvent(name, command, threw, run, start) ==
    [ev |-> name, command |-> command, indexBefore |-> historyIndex,
     lenBefore |-> Len(commandHistory), threw |-> threw,
     tabRun |-> run, tabStart |-> start]

NoPromptEvent ==
    [ev |-> "new", command |-> Undefined, indexBefore |-> -1, lenBefore |-> 0,
     threw |-> FALSE, tabRun |-> 0, tabStart |-> 0]

\* the prompt after construction
PromptInit ==
    /\ input = <<>>
    /\ history = <<>>
    /\ tabIndex = 0
    /\ commandHistory = <<>>
    /\ historyIndex = -1
    /\ promptLast = NoPromptEvent

\* the input line is rendered
PromptShown == ~isGamesMode /\ ~isPlayingGame

\* onInputChange: the user edits the line
typeInput(value) ==
    /\ PromptShown
    /\ input' = value
    /\ promptLast' = PromptEvent("type", Undefined, FALSE, 0, 0)
    /\ UNCHANGED <<history, tabIndex, commandHistory, historyIndex>>
    /\ UNCHANGED <<menuVars, snakeVars, hostVars, settingsVars>>

\* handleKeyPress on Enter: the trimmed line is printed, executed and
\* recorded, then the input and the tab index are cleared; a throw of
\* executeCommand leaves the rest undone
pressEnter ==
    /\ PromptShown
    /\ Len(history) < MaxHistory
    /\ Trim(input) # <<>>
    /\ ToLowerCase(Trim(input)) # GamesCommand
    /\ LET command == Trim(input)
           done == ExecuteCommand(command,
                                  AddToHistory(history, "input", <<command>>))
       IN /\ history' = done.history
          /\ promptLast' = PromptEvent("enter", Some(command), done.threw, 0, 0)
          /\ IF done.threw
             THEN UNCHANGED <<commandHistory, historyIndex, input, tabIndex>>
             ELSE /\ commandHistory' = Append(commandHistory, command)
                  /\ historyIndex' = -1
                  /\ input' = <<>>
                  /\ tabIndex' = 0
    /\ UNCHANGED <<menuVars, snakeVars, hostVars, settingsVars>>

\* the length of 'open ', where handleTabCompletion cuts the input
OpenPrefixLength == 5

UndefinedText == <<"u", "n", "d", "e", "f", "i", "n", "e", "d">>

\* `open ${file}` for an array element that may be undefined
OpenLine(file) ==
    OpenPrefix \o (IF file = Undefined THEN UndefinedText ELSE file[1])

\* handleTabCompletion: the input and the tab index it sets
TabCompletion(text, tab) ==
    IF StartsWith(text, OpenPrefix)
    THEN LET currentInput == Trim(Substring(text, OpenPrefixLength))
             matchingFiles ==
                 SelectSeq(allFiles, LAMBDA file : StartsWith(file, currentInput))
         IN IF currentInput = <<>>
            THEN [input |-> OpenLine(At(allFiles, tab)),
                  tabIndex |-> (tab + 1) % Len(allFiles)]
            ELSE IF Len(matchingFiles) > 0
            THEN [input |-> OpenLine(At(matchingFiles,
                                        tab % Len(matchingFiles))),
                  tabIndex |-> (tab + 1) % Len(matchingFiles)]
            ELSE [input |-> text, tabIndex |-> tab]
    ELSE [input |-> text, tabIndex |-> tab]

\* handleKeyDown on Tab
pressTab ==
    /\ PromptShown
    /\ promptLast.tabRun < MaxTabs
    /\ input' = TabCompletion(input, tabIndex).input
    /\ tabIndex' = TabCompletion(input, tabIndex).tabIndex
    /\ promptLast' =
           IF input = OpenPrefix
           THEN PromptEvent("tab", Undefined, FALSE, 1, tabIndex)
           ELSE IF promptLast.ev = "tab" /\ promptLast.tabRun > 0
           THEN PromptEvent("tab", Undefined, FALSE, promptLast.tabRun + 1,
                            promptLast.tabStart)
           ELSE PromptEvent("tab", Undefined, FALSE, 0, 0)
    /\ UNCHANGED <<history, commandHistory, historyIndex>>
    /\ UNCHANGED <<menuVars, snakeVars, hostVars, settingsVars>>

\* handleArrowUp: the index it sets
ArrowUpIndex(index, commands) ==
    IF index = -1 THEN Len(commands) - 1
    ELSE IF index > 0 THEN index - 1 ELSE index

\* handleKeyDown on ArrowUp outside games mode
pressArrowUp ==
    /\ PromptShown
    /\ promptLast' = PromptEvent("up", Undefined, FALSE, 0, 0)
    /\ IF Len(commandHistory) = 0
       THEN UNCHANGED <<historyIndex, input>>
       ELSE /\ historyIndex' = ArrowUpIndex(historyIndex, commandHistory)
            /\ input' = commandHistory[historyIndex' + 1]
    /\ UNCHANGED <<history, tabIndex, commandHistory>>
    /\ UNCHANGED <<menuVars, snakeVars, hostVars, settingsVars>>

\* handleKeyDown on ArrowDown outside games mode: past the newest command
\* the input is emptied and the function returns before setHistoryIndex
pressArrowDown ==
    /\ PromptShown
    /\ promptLast' = PromptEvent("down", Undefined, FALSE, 0, 0)
    /\ IF Len(commandHistory) = 0
       THEN UNCHANGED <<historyIndex, input>>
       ELSE IF historyIndex < Len(commandHistory) - 1
       THEN /\ historyIndex' = historyIndex + 1
            /\ input' = commandHistory[historyIndex' + 1]
       ELSE /\ input' = <<>>
            /\ UNCHANGED historyIndex
    /\ UNCHANGED <<history, tabIndex, commandHistory>>
    /\ UNCHANGED <<menuVars, snakeVars, hostVars, settingsVars>>

PromptNext ==
    \/ \E value \in TypedInputs : typeInput(value)
    \/ pressEnter
    \/ pressTab
    \/ pressArrowUp
    \/ pressArrowDown

----------------------------------------------------------------------------
(* Console: the host of the games menu and of the mounted game *)

\* most runs of the SnakeGame effect the model follows
MaxEffects == 3

\* most 50 ms display timers pending at once
MaxTimers == 1

\* selectedGame before any game was chosen
NoGame == ""

\* the condition under which ConsoleRender renders <SnakeGame>
Mounted == isPlayingGame /\ selectedGame = "snake"

\* the static list showGames prints
ShowGamesText == << <<"Terminal Games Collection:">>, <<"  > snake">> >>

ExitedMenuText ==
    << <<"^C">>, <<"Exited games menu. Type any command to continue.">> >>

GameEndedText == << <<"Game ended. Type any command to continue.">> >>

\* updateGamesDisplay: the last entry, if it is an output, becomes the menu
UpdateGamesDisplay(h, gamesText) ==
    IF Len(h) > 0 /\ h[Len(h)].type = "output"
    THEN [h EXCEPT ![Len(h)] = HistoryItem("output", gamesText)]
    ELSE h

\* what the last host event was: the onExit invocations it made, whether the
\* game was mounted when it came, and the history it found
HostEvent(name, calls) ==
    [ev |-> name, onExitCalls |-> calls, wasMounted |-> Mounted,
     lenBefore |-> Len(history), lastBefore |-> At(history, Len(history) - 1)]

\* the console after construction: no menu, no game, nothing attached
HostInit ==
    /\ isGamesMode = FALSE
    /\ isPlayingGame = FALSE
    /\ selectedGame = NoGame
    /\ gamesTimers = 0
    /\ effects = 0
    /\ attached = {}
    /\ loops = <<>>
    /\ added = 0
    /\ removed = 0
    /\ hostLast = [ev |-> "new", onExitCalls |-> 0, wasMounted |-> FALSE,
                   lenBefore |-> 0, lastBefore |-> Undefined]

\* document.addEventListener('keydown', handleKeyDown) of effect run g
AddListener(att, g) == att \cup {g}

\* a removal that does not find the handler it is given
RemoveListenerMissed(att, g) == att

\* document.removeEventListener('keydown', handleKeyDown) of effect run g
RemoveListener(att, g) == att \ {g}

\* requestAnimationFrame(gameLoop) of effect run g: the loop g is pending,
\* its frame counter as the first direct call of gameLoop leaves it
StartLoop(lp, g) == [h \in DOMAIN lp \cup {g} |-> IF h = g THEN 1 ELSE lp[h]]

\* the body of the SnakeGame effect, run number g: start the loop, attach
\* the handler
RunEffect(g) ==
    /\ effects' = g
    /\ loops' = StartLoop(loops, g)
    /\ added' = added + 1

\* Enter at the prompt with the games command typed: the command and the
\* games list are printed, the menu opens, the display refresh is scheduled,
\* the command is recorded and the input line cleared
executeGames ==
    /\ ~isGamesMode /\ ~isPlayingGame
    /\ gamesTimers < MaxTimers
    /\ Len(history) < MaxHistory
    /\ history' = AddToHistory(AddToHistory(history, "input", <<GamesCommand>>),
                               "output", ShowGamesText)
    /\ isGamesMode' = TRUE
    /\ gamesTimers' = gamesTimers + 1
    /\ commandHistory' = Append(commandHistory, GamesCommand)
    /\ historyIndex' = -1
    /\ input' = <<>>
    /\ tabIndex' = 0
    /\ hostLast' = HostEvent("games", 0)
    /\ UNCHANGED <<isPlayingGame, selectedGame, effects, attached, loops,
                   added, removed, promptLast>>
    /\ UNCHANGED <<menuVars, snakeVars, settingsVars>>

\* the scheduled updateGamesDisplay: the last output of the history is
\* replaced, the console renders again and hands a new onExit to a mounted
\* game, whose effect is cleaned up and run again
gamesTimerFires ==
    /\ gamesTimers > 0
    /\ Mounted => effects < MaxEffects
    /\ gamesTimers' = gamesTimers - 1
    /\ history' = UpdateGamesDisplay(history, getDisplayText(items, currentIndex))
    /\ IF Mounted
       THEN /\ RunEffect(effects + 1)
            /\ attached' = AddListener(RemoveListener(attached, effects),
                                       effects + 1)
            /\ removed' = removed + 1
       ELSE UNCHANGED <<effects, attached, loops, added, removed>>
    /\ hostLast' = HostEvent("timer", 0)
    /\ UNCHANGED <<isGamesMode, isPlayingGame, selectedGame>>
    /\ UNCHANGED <<input, tabIndex, commandHistory, historyIndex, promptLast>>
    /\ UNCHANGED <<menuVars, snakeVars, settingsVars>>

\* ArrowUp at the document while the menu is open: moveUp, then the redraw
onGamesUp ==
    /\ isGamesMode
    /\ currentIndex' = MoveUpIndex(currentIndex, items)
    /\ lastOp' = Op("moveUp", <<>>, 0)
    /\ history' = UpdateGamesDisplay(history, getDisplayText(items, currentIndex'))
    /\ hostLast' = HostEvent("up", 0)
    /\ UNCHANGED <<items, hasOnExit>>
    /\ UNCHANGED <<isGamesMode, isPlayingGame, selectedGame, gamesTimers,
                   effects, attached, loops, added, removed>>
    /\ UNCHANGED <<input, tabIndex, commandHistory, historyIndex, promptLast>>
    /\ UNCHANGED <<snakeVars, settingsVars>>

\* ArrowDown at the document while the menu is open: moveDown, then the redraw
onGamesDown ==
    /\ isGamesMode
    /\ currentIndex' = MoveDownIndex(currentIndex, items)
    /\ lastOp' = Op("moveDown", <<>>, 0)
    /\ history' = UpdateGamesDisplay(history, getDisplayText(items, currentIndex'))
    /\ hostLast' = HostEvent("down", 0)
    /\ UNCHANGED <<items, hasOnExit>>
    /\ UNCHANGED <<isGamesMode, isPlayingGame, selectedGame, gamesTimers,
                   effects, attached, loops, added, removed>>
    /\ UNCHANGED <<input, tabIndex, commandHistory, historyIndex, promptLast>>
    /\ UNCHANGED <<snakeVars, settingsVars>>

\* an item action that leaves the menu open
ItemActionKeepsMenu(id) ==
    [selectedGame |-> id, isGamesMode |-> TRUE, isPlayingGame |-> TRUE]

\* the action of a game item: the states it sets
ItemAction(id) ==
    [selectedGame |-> id, isGamesMode |-> FALSE, isPlayingGame |-> TRUE]

\* Enter at the document while the menu is open: select() calls the action
\* of the item under the cursor, which mounts the game
onGamesSelect ==
    /\ isGamesMode
    /\ effects < MaxEffects
    /\ IF SelectCalls(items, currentIndex) # <<>>
       THEN LET set == ItemAction(SelectCalls(items, currentIndex)[1].id)
            IN /\ selectedGame' = set.selectedGame
               /\ isGamesMode' = set.isGamesMode
               /\ isPlayingGame' = set.isPlayingGame
               /\ IF set.isPlayingGame /\ set.selectedGame = "snake"
                  THEN /\ RunEffect(effects + 1)
                       /\ attached' = AddListener(attached, effects + 1)
                  ELSE UNCHANGED <<effects, attached, loops, added>>
       ELSE UNCHANGED <<selectedGame, isGamesMode, isPlayingGame, effects,
                        attached, loops, added>>
    /\ lastOp' = Op("select", SelectCalls(items, currentIndex), 0)
    /\ hostLast' = HostEvent("select", 0)
    /\ UNCHANGED <<items, currentIndex, hasOnExit>>
    /\ UNCHANGED <<gamesTimers, removed>>
    /\ UNCHANGED <<consoleVars, snakeVars, settingsVars>>

\* Ctrl+C at the document while the menu is open
onGamesExit ==
    /\ isGamesMode
    /\ isGamesMode' = FALSE
    /\ history' = AddToHistory(history, "output", ExitedMenuText)
    /\ hostLast' = HostEvent("menuExit", 0)
    /\ UNCHANGED <<isPlayingGame, selectedGame, gamesTimers, effects,
                   attached, loops, added, removed>>
    /\ UNCHANGED <<input, tabIndex, commandHistory, historyIndex, promptLast>>
    /\ UNCHANGED <<menuVars, snakeVars, settingsVars>>

\* a quit key that makes every handler call onExit twice
OnExitCallsTwice(att) == 2 * Cardinality(att)

\* the onExit invocations one quit key makes: one by each attached handler
OnExitCalls(att) == Cardinality(att)

\* q, Q or Ctrl+C pressed while the menu is closed: each attached
\* handleKeyDown calls onExit, which prints the end of the game and sets
\* isPlayingGame to false; the game is unmounted and its effect cleaned up
onGameExit ==
    /\ ~isGamesMode
    /\ hostLast' = HostEvent("quit", OnExitCalls(attached))
    /\ IF OnExitCalls(attached) > 0
       THEN /\ isPlayingGame' = FALSE
            /\ history' = AddToHistory(history, "output", GameEndedText)
       ELSE UNCHANGED <<isPlayingGame, history>>
    /\ IF Mounted /\ OnExitCalls(attached) > 0
       THEN /\ attached' = RemoveListener(attached, effects)
            /\ removed' = removed + 1
       ELSE UNCHANGED <<attached, removed>>
    /\ UNCHANGED <<isGamesMode, selectedGame, gamesTimers, effects, loops,
                   added>>
    /\ UNCHANGED <<input, tabIndex, commandHistory, historyIndex, promptLast>>
    /\ UNCHANGED <<menuVars, snakeVars, settingsVars>>

\* one animation frame of the loop started by effect run g: it asks for the
\* next frame first, then counts
frame(g) ==
    /\ loops' = [loops EXCEPT ![g] = IF IsTickFrame(@) THEN 0 ELSE @ + 1]
    /\ UNCHANGED <<isGamesMode, isPlayingGame, selectedGame, gamesTimers,
                   effects, attached, added, removed, hostLast>>
    /\ UNCHANGED <<menuVars, snakeVars, consoleVars, settingsVars>>

HostNext ==
    \/ executeGames
    \/ gamesTimerFires
    \/ onGamesUp
    \/ onGamesDown
    \/ onGamesSelect
    \/ onGamesExit
    \/ onGameExit
    \/ \E g \in DOMAIN loops : frame(g)

----------------------------------------------------------------------------
(* ThemeSystem and the settings kept between sessions *)

\* longest list of themes the model builds
MaxThemes == 9

Theme(id, bg, text, prompt) ==
    [id |-> id, colors |-> [bg |-> bg, text |-> text, prompt |-> prompt]]

\* the themes of the data module
BuiltInThemes ==
    << Theme("light", "#ffffff", "#000000", "#0066cc"),
       Theme("dark", "#000000", "#ffffff", "#00ff00"),
       Theme("green", "#000000", "#00ff00", "#00ff00"),
       Theme("blue", "#000011", "#0088ff", "#0088ff"),
       Theme("purple", "#110011", "#cc00cc", "#cc00cc"),
       Theme("red", "#110000", "#ff4444", "#ff4444"),
       Theme("orange", "#1a0f00", "#ffaa33", "#ffaa33"),
       Theme("cyan", "#001a1a", "#00ffff", "#00ffff") >>

\* the colors of the data module
colors ==
    << [name |-> "black", value |-> "#000000"],
       [name |-> "white", value |-> "#ffffff"],
       [name |-> "red", value |-> "#ff0000"],
       [name |-> "green", value |-> "#00ff00"],
       [name |-> "blue", value |-> "#0000ff"],
       [name |-> "yellow", value |-> "#ffff00"],
       [name |-> "purple", value |-> "#800080"],
       [name |-> "orange", value |-> "#ffa500"],
       [name |-> "cyan", value |-> "#00ffff"],
       [name |-> "magenta", value |-> "#ff00ff"] >>

\* the index of the default theme, dark
DefaultThemeIndex == 1

\* removeCustomTheme removes at indices above this one
LastKeptIndex == 6

MinFontSize == 12

MaxFontSize == 24

\* opacities are counted in tenths: 0.1 is 1, 1.0 is 10
MinOpacity == 1

MaxOpacity == 10

\* the theme ids, color names, sizes and opacities the model passes in
ThemeInputs == {"light", "cyan", "custom", "none"}

ColorTypes == {"text", "bg"}

ColorInputs == {"red", "none"}

FontSizeInputs == {11, 16}

OpacityInputs == {5, 11}

CustomThemes == {Theme("custom", "#222222", "#dddddd", "#dddddd")}

\* Array.prototype.find by id
FindTheme(list, id) ==
    IF FindIndex(list, id) = -1 THEN Undefined
    ELSE Some(list[FindIndex(list, id) + 1])

\* Array.prototype.find by name
FindColor(name) ==
    IF \E i \in 1..Len(colors) : colors[i].name = name
    THEN Some(colors[CHOOSE i \in 1..Len(colors) :
                        /\ colors[i].name = name
                        /\ \A j \in 1..(i - 1) : colors[j].name # name])
    ELSE Undefined

\* the custom properties of the document element
NoStyle ==
    [bg |-> Undefined, text |-> Undefined, prompt |-> Undefined,
     background |-> Undefined, fontSize |-> Undefined, opacity |-> Undefined]

\* the key-value store of the browser: nothing saved
NoStorage ==
    [theme |-> Undefined, text |-> Undefined, bg |-> Undefined,
     prompt |-> Undefined, fontSize |-> Undefined, opacity |-> Undefined]

\* the values last set with success, none after a reset
NothingSet ==
    [theme |-> Undefined, text |-> Undefined, bg |-> Undefined,
     prompt |-> Undefined, fontSize |-> Undefined, opacity |-> Undefined]

\* applyTheme
ApplyTheme(st, theme) ==
    [st EXCEPT !.bg = Some(theme.colors.bg), !.text = Some(theme.colors.text),
               !.prompt = Some(theme.colors.prompt)]

\* applyColor
ApplyColor(st, type, value) ==
    IF type = "text" THEN [st EXCEPT !.text = Some(value)]
    ELSE IF type = "bg" THEN [st EXCEPT !.bg = Some(value)]
    ELSE IF type = "prompt" THEN [st EXCEPT !.prompt = Some(value)]
    ELSE st

\* setupTheme: the saved settings, or the dark theme, put on the document
SetupTheme(st, saved) ==
    LET maybe == IF saved.theme = Undefined THEN Undefined
                 ELSE FindTheme(BuiltInThemes, saved.theme[1])
        theme == IF maybe = Undefined
                 THEN BuiltInThemes[DefaultThemeIndex + 1] ELSE maybe[1]
        themed == [ApplyTheme(st, theme) EXCEPT
                      !.background = Some(theme.colors.bg)]
        text == IF saved.text = Undefined THEN themed
                ELSE [themed EXCEPT !.text = saved.text]
        bg == IF saved.bg = Undefined THEN text
              ELSE [text EXCEPT !.bg = saved.bg, !.background = saved.bg]
        prompt == IF saved.prompt = Undefined THEN bg
                  ELSE [bg EXCEPT !.prompt = saved.prompt]
        size == IF saved.fontSize = Undefined THEN prompt
                ELSE [prompt EXCEPT !.fontSize = saved.fontSize]
    IN IF saved.opacity = Undefined THEN size
       ELSE [size EXCEPT !.opacity = saved.opacity]

\* what the last settings operation was, with what argument, what it
\* returned and how long the theme list was
SettingsEvent(name, id, returned) ==
    [ev |-> name, id |-> id, returned |-> returned, lenBefore |-> Len(themes)]

\* a session starts: the data module is loaded, the ThemeSystem constructor
\* applies the dark theme, then setupTheme reads the store
SessionStart(saved) ==
    [themes |-> BuiltInThemes,
     currentTheme |-> BuiltInThemes[DefaultThemeIndex + 1],
     customColors |-> [type \in {"text", "bg", "prompt"} |-> Undefined],
     style |-> SetupTheme(ApplyTheme(NoStyle,
                                     BuiltInThemes[DefaultThemeIndex + 1]),
                          saved)]

SettingsInit ==
    /\ storage = NoStorage
    /\ themes = SessionStart(storage).themes
    /\ currentTheme = SessionStart(storage).currentTheme
    /\ customColors = SessionStart(storage).customColors
    /\ style = SessionStart(storage).style
    /\ lastSet = NothingSet
    /\ settingsLast = [ev |-> "new", id |-> "", returned |-> FALSE,
                       lenBefore |-> Len(BuiltInThemes)]

\* the page is loaded again: the store is what outlives the session
newSession ==
    /\ themes' = SessionStart(storage).themes
    /\ currentTheme' = SessionStart(storage).currentTheme
    /\ customColors' = SessionStart(storage).customColors
    /\ style' = SessionStart(storage).style
    /\ settingsLast' = SettingsEvent("session", "", FALSE)
    /\ UNCHANGED <<storage, lastSet>>
    /\ UNCHANGED <<menuVars, snakeVars, hostVars, consoleVars>>

setTheme(themeId) ==
    /\ LET theme == FindTheme(themes, themeId)
       IN IF theme # Undefined
          THEN /\ currentTheme' = theme[1]
               /\ style' = ApplyTheme(style, theme[1])
               /\ lastSet' = [lastSet EXCEPT !.theme = Some(themeId)]
               /\ settingsLast' = SettingsEvent("setTheme", themeId, TRUE)
          ELSE /\ settingsLast' = SettingsEvent("setTheme", themeId, FALSE)
               /\ UNCHANGED <<currentTheme, style, lastSet>>
    /\ UNCHANGED <<themes, customColors, storage>>
    /\ UNCHANGED <<menuVars, snakeVars, hostVars, consoleVars>>

setColor(type, colorName) ==
    /\ LET color == FindColor(colorName)
       IN IF color # Undefined
          THEN /\ customColors' =
                      [customColors EXCEPT ![type] = Some(color[1].value)]
               /\ style' = ApplyColor(style, type, color[1].value)
               /\ lastSet' = [lastSet EXCEPT ![type] = Some(color[1].value)]
               /\ settingsLast' = SettingsEvent("setColor", colorName, TRUE)
          ELSE /\ settingsLast' = SettingsEvent("setColor", colorName, FALSE)
               /\ UNCHANGED <<customColors, style, lastSet>>
    /\ UNCHANGED <<themes, currentTheme, storage>>
    /\ UNCHANGED <<menuVars, snakeVars, hostVars, consoleVars>>

setFontSize(size) ==
    /\ IF size >= MinFontSize /\ size <= MaxFontSize
       THEN /\ style' = [style EXCEPT !.fontSize = Some(size)]
            /\ lastSet' = [lastSet EXCEPT !.fontSize = Some(size)]
            /\ settingsLast' = SettingsEvent("setFontSize", "", TRUE)
       ELSE /\ settingsLast' = SettingsEvent("setFontSize", "", FALSE)
            /\ UNCHANGED <<style, lastSet>>
    /\ UNCHANGED <<themes, currentTheme, customColors, storage>>
    /\ UNCHANGED <<menuVars, snakeVars, hostVars, consoleVars>>

setOpacity(opacity) ==
    /\ IF opacity >= MinOpacity /\ opacity <= MaxOpacity
       THEN /\ style' = [style EXCEPT !.opacity = Some(opacity)]
            /\ lastSet' = [lastSet EXCEPT !.opacity = Some(opacity)]
            /\ settingsLast' = SettingsEvent("setOpacity", "", TRUE)
       ELSE /\ settingsLast' = SettingsEvent("setOpacity", "", FALSE)
            /\ UNCHANGED <<style, lastSet>>
    /\ UNCHANGED <<themes, currentTheme, customColors, storage>>
    /\ UNCHANGED <<menuVars, snakeVars, hostVars, consoleVars>>

\* reset: the custom properties are removed and the default theme applied
reset ==
    /\ currentTheme' = themes[DefaultThemeIndex + 1]
    /\ customColors' = [type \in DOMAIN customColors |-> Undefined]
    /\ style' = ApplyTheme([style EXCEPT !.bg = Undefined, !.text = Undefined,
                                         !.prompt = Undefined,
                                         !.fontSize = Undefined,
                                         !.opacity = Undefined],
                           themes[DefaultThemeIndex + 1])
    /\ lastSet' = NothingSet
    /\ settingsLast' = SettingsEvent("reset", "", FALSE)
    /\ UNCHANGED <<themes, storage>>
    /\ UNCHANGED <<menuVars, snakeVars, hostVars, consoleVars>>

addCustomTheme(theme) ==
    /\ Len(themes) < MaxThemes
    /\ themes' = Append(themes, theme)
    /\ settingsLast' = SettingsEvent("addCustomTheme", theme.id, FALSE)
    /\ UNCHANGED <<currentTheme, customColors, style, storage, lastSet>>
    /\ UNCHANGED <<menuVars, snakeVars, hostVars, consoleVars>>

\* Array.prototype.splice(index, 1)
Splice(list, index) ==
    SubSeq(list, 1, index) \o SubSeq(list, index + 2, Len(list))

removeCustomTheme(themeId) ==
    /\ LET index == FindIndex(themes, themeId)
       IN IF index > LastKeptIndex
          THEN /\ themes' = Splice(themes, index)
               /\ settingsLast' =
                      SettingsEvent("removeCustomTheme", themeId, TRUE)
          ELSE /\ settingsLast' =
                      SettingsEvent("removeCustomTheme", themeId, FALSE)
               /\ UNCHANGED themes
    /\ UNCHANGED <<currentTheme, customColors, style, storage, lastSet>>
    /\ UNCHANGED <<menuVars, snakeVars, hostVars, consoleVars>>

SettingsNext ==
    \/ newSession
    \/ \E themeId \in ThemeInputs : setTheme(themeId)
    \/ \E type \in ColorTypes, colorName \in ColorInputs :
           setColor(type, colorName)
    \/ \E size \in FontSizeInputs : setFontSize(size)
    \/ \E opacity \in OpacityInputs : setOpacity(opacity)
    \/ reset
    \/ \E theme \in CustomThemes : addCustomTheme(theme)
    \/ \E themeId \in ThemeInputs : removeCustomTheme(themeId)

----------------------------------------------------------------------------
(* Properties of ArrowSelection *)

\* C1: whenever the item list is non-empty, the cursor is a valid index of
\* it: 0 <= cursor < items.length.
C1_CursorInRange ==
    Len(items) > 0 => (0 <= currentIndex /\ currentIndex < Len(items))

\* C2: on an empty item list moveUp() and moveDown() leave the cursor at the
\* value it had before the call.
C2_EmptyMoveIsNoOp ==
    (lastOp.op \in {"moveUp", "moveDown"} /\ lastOp.lenBefore = 0)
        => currentIndex = lastOp.idxBefore

\* the cursor after k moveDown() calls in a row
RECURSIVE MoveDownTimes(_, _, _)
MoveDownTimes(idx, arr, k) ==
    IF k = 0 THEN idx ELSE MoveDownTimes(MoveDownIndex(idx, arr), arr, k - 1)

\* C3: on a non-empty menu of n items moveDown() takes the cursor c to
\* (c + 1) mod n, and n moveDown() calls in a row bring the cursor back to
\* the value it started from.
C3_MoveDownCycles ==
    /\ (lastOp.op = "moveDown" /\ lastOp.lenBefore > 0)
          => currentIndex = (lastOp.idxBefore + 1) % lastOp.lenBefore
    /\ Len(items) > 0
          => MoveDownTimes(currentIndex, items, Len(items)) = currentIndex

\* C4: on a non-empty menu of n items moveUp() takes the cursor c to c - 1
\* when c > 0 and to n - 1 when c = 0; a moveUp() made right after
\* construction leaves the cursor at items.length - 1.
C4_MoveUpWraps ==
    (lastOp.op = "moveUp" /\ lastOp.lenBefore > 0)
        => /\ lastOp.idxBefore > 0 => currentIndex = lastOp.idxBefore - 1
           /\ lastOp.idxBefore = 0 => currentIndex = lastOp.lenBefore - 1
           /\ lastOp.first => currentIndex = Len(items) - 1

\* a moveUp() made right after constructing a menu of several items has
\* wrapped the cursor to the last item
C4_Witness ==
    /\ lastOp.op = "moveUp" /\ lastOp.first
    /\ Len(items) >= 2 /\ currentIndex = Len(items) - 1

\* C5: select() on an empty item list makes no onSelect call, whatever the
\* cursor was left at by earlier moveUp/moveDown calls.
C5_SelectOnEmptyCallsNothing ==
    (lastOp.op = "select" /\ lastOp.lenBefore = 0) => lastOp.selectCalls = <<>>

\* select() was called on an empty menu whose cursor an earlier moveUp() had
\* moved
C5_Witness ==
    /\ lastOp.op = "select" /\ lastOp.lenBefore = 0
    /\ lastOp.idxBefore # 0 /\ lastOp.selectCalls = <<>>

\* C6: on a non-empty menu select() calls onSelect exactly once, with
\* items[cursor], and leaves the cursor where it was.
C6_SelectCallsOnce ==
    (lastOp.op = "select" /\ lastOp.lenBefore > 0)
        => /\ Len(lastOp.selectCalls) = 1
           /\ At(items, currentIndex) = Some(lastOp.selectCalls[1])
           /\ currentIndex = lastOp.idxBefore

\* C7: exit() calls onExit exactly once when it was provided and not at all
\* otherwise, and changes neither the items nor the cursor.
C7_ExitLeavesMenu ==
    [][lastOp'.op = "exit"
         => /\ lastOp'.exitCalls = (IF hasOnExit THEN 1 ELSE 0)
            /\ items' = items
            /\ currentIndex' = currentIndex]_vars

\* exit() was called on a non-empty menu that was given no onExit callback
C7_Witness ==
    /\ lastOp.op = "exit" /\ ~hasOnExit /\ lastOp.exitCalls = 0
    /\ Len(items) > 0

\* the lines of the rendered menu that show the items
ItemLines(text, n) == SubSeq(text, 6, 5 + n)

\* C8: the rendered text of a non-empty menu shows the items in their stored
\* order and marks exactly one of them with '>', the one at the cursor, and
\* every other with a space.
C8_RenderMarksCursor ==
    Len(items) > 0 =>
        LET lines == ItemLines(getDisplayText(items, currentIndex), Len(items))
        IN /\ \A i \in 1..Len(items) :
                 /\ SubSeq(lines[i], 5, 25) = PadEnd(items[i].name, 21)
                 /\ lines[i][3] = (IF i - 1 = currentIndex THEN ">" ELSE " ")
           /\ Cardinality({i \in 1..Len(items) : lines[i][3] = ">"}) = 1
           /\ lines[currentIndex + 1][3] = ">"

\* C9: after removeItem(id) the cursor is in range: a valid index of a
\* non-empty list, and 0 when the list is empty.
C9_RemoveKeepsCursorInRange ==
    lastOp.op = "removeItem"
        => IF Len(items) = 0 THEN currentIndex = 0
           ELSE 0 <= currentIndex /\ currentIndex < Len(items)

\* C28: removeItem(id) of an item other than the selected one leaves the
\* same item selected: the id under the cursor after the call is the id
\* under the cursor before it, wherever the removed item sat.
C28_RemoveOtherKeepsSelection ==
    [][(/\ lastOp'.op = "removeItem"
        /\ items' # items
        /\ 0 <= currentIndex /\ currentIndex < Len(items)
        /\ \E i \in 1..Len(items') : items'[i].id = items[currentIndex + 1].id)
       => /\ 0 <= currentIndex' /\ currentIndex' < Len(items')
          /\ items'[currentIndex' + 1].id = items[currentIndex + 1].id]_vars

----------------------------------------------------------------------------
(* Properties of SnakeGame *)

\* the velocity an arrow key asks for
Requested(which) ==
    CASE which = 37 -> <<-grid, 0>>
      [] which = 38 -> <<0, -grid>>
      [] which = 39 -> <<grid, 0>>
      [] which = 40 -> <<0, grid>>

\* C10: an arrow key changes the velocity only when it asks for a direction
\* perpendicular to the current one: moving left or right, the Left and Right
\* keys leave (dx, dy) as it was and Up and Down are taken; moving up or
\* down, the Up and Down keys leave it as it was and Left and Right are taken.
C10_PerpendicularOnly ==
    (snakeLast.ev = "key" /\ snakeLast.key.which \in 37..40)
        => LET before == <<snakeLast.dxBefore, snakeLast.dyBefore>>
               wanted == Requested(snakeLast.key.which)
               sameAxis == (before[2] = 0) = (wanted[2] = 0)
           IN <<snake.dx, snake.dy>> = (IF sameAxis THEN before ELSE wanted)

\* the Left key was pressed while the snake moved right and was refused
C10_Witness ==
    /\ snakeLast.ev = "key" /\ snakeLast.key.which = 37
    /\ snakeLast.dxBefore = grid /\ snake.dx = grid /\ snake.dy = 0

\* C11: the velocity a simulation step applies is never the exact opposite of
\* the velocity the step before it applied, unless the game was reset in
\* between; so the head never steps back onto the cell it just left.
C11_NoReversalBetweenTicks ==
    (snakeLast.ev = "tick" /\ snakeLast.velPrev # NoVel)
        => <<snakeLast.dxBefore, snakeLast.dyBefore>>
              # <<0 - snakeLast.velPrev[1], 0 - snakeLast.velPrev[2]>>

Min(a, b) == IF a <= b THEN a ELSE b

\* the head that k steps summing to (dx, dy) lead to from the start cell
HeadAfter(dx, dy) ==
    [x |-> (StartX + dx) % CanvasWidth, y |-> (StartY + dy) % CanvasHeight]

\* C12 as stated: after k steps from the initial state without eating and
\* without collision the snake has min(k + 1, initial length) cells and its
\* head is the start cell plus the k velocities, wrapped around the board.
C12_CellsAfterTicksAsStated ==
    (score = 0 /\ trail.age >= 1)
        => /\ Len(snake.cells) = Min(trail.age + 1, StartMaxCells)
           /\ [x |-> snake.x, y |-> snake.y] = HeadAfter(trail.dx, trail.dy)

\* C12: after k steps from the initial state without eating and without
\* collision the snake has min(k, initial target length) cells and its head
\* is the start cell plus the k velocities, wrapped around the board.
C12_CellsAfterTicks ==
    score = 0
        => /\ Len(snake.cells) = Min(trail.age, StartMaxCells)
           /\ [x |-> snake.x, y |-> snake.y] = HeadAfter(trail.dx, trail.dy)

\* fifteen steps to the right have taken the head over the right edge to
\* column 0, with the snake at its full four cells
C12_Witness ==
    /\ score = 0 /\ trail.age = 15 /\ trail.dx = 15 * grid
    /\ snake.x = 0 /\ Len(snake.cells) = StartMaxCells

\* C13: the snake never has more cells than its target length.
C13_CellsWithinMaxCells == Len(snake.cells) <= snake.maxCells

\* a step has just trimmed a snake that ate once and is five cells long
C13_Witness ==
    /\ snakeLast.ev = "tick" /\ snake.maxCells = StartMaxCells + 1
    /\ Len(snake.cells) = snake.maxCells

\* a cell of the board: both coordinates multiples of grid within the board
OnBoard(c) ==
    /\ c.x % grid = 0 /\ c.x >= 0 /\ c.x <= (BoardCells - 1) * grid
    /\ c.y % grid = 0 /\ c.y >= 0 /\ c.y <= (BoardCells - 1) * grid

\* the coordinate a step from v leads to on a toroidal axis
Toroidal(v) ==
    IF v < 0 THEN (BoardCells - 1) * grid
    ELSE IF v >= BoardCells * grid THEN 0 ELSE v

\* C14: the head and every cell of the snake are cells of the board, and a
\* step past the low edge lands on (boardCells - 1) * gridSize, a step past
\* the high edge on 0.
C14_ToroidalBoard ==
    /\ OnBoard(snake)
    /\ \A i \in 1..Len(snake.cells) : OnBoard(snake.cells[i])
    /\ (snakeLast.ev = "tick" /\ snakeLast.resets = 0)
          => /\ snake.x = Toroidal(snakeLast.xBefore + snakeLast.dxBefore)
             /\ snake.y = Toroidal(snakeLast.yBefore + snakeLast.dyBefore)

\* a step up from row 0 has landed on the bottom row
C14_Witness ==
    /\ snakeLast.ev = "tick" /\ snakeLast.yBefore = 0
    /\ snakeLast.dyBefore = 0 - grid /\ snake.y = (BoardCells - 1) * grid

\* C15: when the moved head of a step meets the apple, the step adds exactly
\* 10 to the score and exactly 1 to the target length, and leaves the apple
\* on a cell of the board.
C15_EatAddsTenAndOne ==
    (snakeLast.ev = "tick" /\ snakeLast.headOnApple)
        => /\ score = snakeLast.scoreBefore + 10
           /\ snake.maxCells = snakeLast.maxBefore + 1
           /\ OnBoard(apple)

\* C16: a step raises the target length by at most one and the score by at
\* most 10, wherever the relocated apple lands.
C16_GrowthAtMostOne ==
    snakeLast.ev = "tick"
        => /\ snake.maxCells <= snakeLast.maxBefore + 1
           /\ score <= snakeLast.scoreBefore + 10

\* C17: a step in which two cells of the snake coincide ends in the reset
\* state: score 0, the initial target length, no cells, the initial
\* velocity, and the apple on a cell of the board.
C17_CollisionEndsInReset ==
    (snakeLast.ev = "tick" /\ snakeLast.resets > 0)
        => /\ score = 0
           /\ snake.maxCells = StartMaxCells
           /\ snake.cells = <<>>
           /\ snake.dx = grid /\ snake.dy = 0
           /\ OnBoard(apple)

\* C18: the frame count stays within 0..5; the frame callback that finds it
\* at 5 runs the simulation step and puts it back to 0, and every other frame
\* callback only counts and leaves snake, apple and score as they were: one
\* step per 6 callbacks.
C18_OneTickPerSixFrames ==
    /\ [](count \in 0..(FramesPerTick - 1))
    /\ [][snakeLast'.ev \in {"frame", "tick"}
            => IF count = FramesPerTick - 1
               THEN snakeLast'.ev = "tick" /\ count' = 0 /\ ticks' = ticks + 1
               ELSE /\ snakeLast'.ev = "frame" /\ count' = count + 1
                    /\ UNCHANGED <<snake, apple, score, ticks>>]_vars

\* the second simulation step has just run, six callbacks after the first
C18_Witness == snakeLast.ev = "tick" /\ ticks = 2 /\ count = 0

----------------------------------------------------------------------------
(* Properties of the game's life cycle in the Console *)

\* C19: tearing the game view down stops its clock: at most one
\* self-rescheduling loop is pending while a game is mounted, none after exit.
C19_ClockStopsOnExit ==
    IF Mounted THEN Cardinality(DOMAIN loops) <= 1 ELSE DOMAIN loops = {}

\* C20: every registration of the game's keydown handler has exactly one
\* matching removal: while a game is mounted exactly the handler of the
\* current effect run is attached, after exit none is, and the removals
\* made so far are the registrations made so far less the attached handlers.
C20_OneHandlerWhileMounted ==
    /\ attached = IF Mounted THEN {effects} ELSE {}
    /\ added = effects
    /\ removed = added - Cardinality(attached)

\* a game was mounted, its effect ran again on a new onExit, and it was quit
C20_Witness ==
    /\ ~Mounted
    /\ added = 2
    /\ removed = 2
    /\ attached = {}

\* C21: the host exit callback is invoked exactly once per exit of the game:
\* a quit key pressed while the game is mounted makes exactly one onExit
\* invocation, and a quit key pressed after the teardown makes none.
C21_OneExitCallPerQuit ==
    hostLast.ev = "quit" =>
        hostLast.onExitCalls = IF hostLast.wasMounted THEN 1 ELSE 0

\* a game whose effect has run twice was quit
C21_Witness ==
    /\ hostLast.ev = "quit"
    /\ hostLast.wasMounted
    /\ hostLast.onExitCalls = 1
    /\ effects = 2

\* C22: the menu and the game are never active together; choosing a game in
\* the menu leaves the game active and the menu closed; quitting the game
\* leaves the idle prompt, neither game nor menu active.
C22_HostModes ==
    /\ ~(isGamesMode /\ isPlayingGame)
    /\ hostLast.ev = "select" => (isPlayingGame /\ ~isGamesMode)
    /\ (hostLast.ev = "quit" /\ hostLast.wasMounted) =>
           (~isPlayingGame /\ ~isGamesMode)

\* a second game, chosen after the first was quit, was quit too
C22_Witness ==
    /\ hostLast.ev = "quit"
    /\ hostLast.wasMounted
    /\ ~isPlayingGame
    /\ ~isGamesMode
    /\ Len(commandHistory) = 2

\* the texts the games menu is printed as
IsGamesMenuText(content) ==
    \/ content = ShowGamesText
    \/ \E i \in -1..Len(items) : content = getDisplayText(items, i)

\* C29: the delayed redraw of the games menu never overwrites an output that
\* is not the games menu, and never changes the number of history entries.
C29_RedrawKeepsOtherOutput ==
    hostLast.ev = "timer" =>
        /\ Len(history) = hostLast.lenBefore
        /\ (/\ hostLast.lastBefore # Undefined
            /\ ~IsGamesMenuText(hostLast.lastBefore[1].content))
           => history[Len(history)] = hostLast.lastBefore[1]

----------------------------------------------------------------------------
(* Properties of the prompt *)

\* C24: executing clear at the prompt clears the terminal: afterwards the
\* console history is empty, the command is recorded in the command history
\* and the input line is cleared.
C24_ClearEmptiesHistory ==
    (/\ promptLast.ev = "enter"
     /\ ToLowerCase(promptLast.command[1]) = ClearCommand)
        => /\ history = <<>>
           /\ Len(commandHistory) = promptLast.lenBefore + 1
           /\ commandHistory[Len(commandHistory)] = promptLast.command[1]
           /\ input = <<>>

\* C25: with the input exactly 'open ', Tab presses in a row cycle through
\* all files in list order: the k-th press shows the file k - 1 places after
\* the one the first press shows, wrapping at the end of the list.
C25_TabCyclesAllFiles ==
    (promptLast.ev = "tab" /\ promptLast.tabRun > 0)
        => input = OpenPrefix
                   \o allFiles[((promptLast.tabStart + promptLast.tabRun - 1)
                                % Len(allFiles)) + 1]

\* C30: historyIndex is -1 or a valid index of commandHistory, and an
\* ArrowDown pressed while the newest command is shown empties the input and
\* returns historyIndex to -1.
C30_HistoryNavigation ==
    /\ historyIndex = -1
       \/ (0 <= historyIndex /\ historyIndex < Len(commandHistory))
    /\ (/\ promptLast.ev = "down"
        /\ promptLast.lenBefore > 0
        /\ promptLast.indexBefore = promptLast.lenBefore - 1)
       => (input = <<>> /\ historyIndex = -1)

----------------------------------------------------------------------------
(* Properties of the settings *)

\* the ids of the themes of the data module
BuiltInIds == {BuiltInThemes[i].id : i \in 1..Len(BuiltInThemes)}

\* a set with one element as a list
SetToSeq(set) == <<CHOOSE x \in set : TRUE>>

\* the color a session should start with for one of text, bg, prompt: the
\* custom color last set, else the color of the theme last set
Expected(type) ==
    IF lastSet[type] # Undefined THEN lastSet[type]
    ELSE IF lastSet.theme # Undefined
         THEN Some(FindTheme(BuiltInThemes \o SetToSeq(CustomThemes),
                             lastSet.theme[1])[1].colors[type])
         ELSE Undefined

\* C23: cosmetic settings persist across sessions: the theme, custom color,
\* font size and opacity applied when a new session starts are the last
\* values set with success.
C23_SettingsPersist ==
    settingsLast.ev = "session" =>
        /\ \A type \in {"text", "bg", "prompt"} :
               Expected(type) # Undefined => style[type] = Expected(type)
        /\ lastSet.fontSize # Undefined => style.fontSize = lastSet.fontSize
        /\ lastSet.opacity # Undefined => style.opacity = lastSet.opacity

\* C26: removeCustomTheme(id) of a built-in theme id returns false and
\* leaves the list of themes as it was.
C26_BuiltInThemesStay ==
    (settingsLast.ev = "removeCustomTheme" /\ settingsLast.id \in BuiltInIds)
        => /\ settingsLast.returned = FALSE
           /\ Len(themes) = settingsLast.lenBefore
           /\ \A id \in BuiltInIds : FindIndex(themes, id) # -1

----------------------------------------------------------------------------
(* Specifications *)

\* the menu alone, constructed with any item list; the game is not touched
MenuSpecInit ==
    MenuInit /\ SnakeInit /\ HostInit /\ PromptInit /\ SettingsInit

MenuSpec == MenuSpecInit /\ [][MenuNext]_vars

\* the games menu the console constructs
GamesMenuInit ==
    /\ items = << [id |-> "snake", name |-> <<"S", "n">>,
                   description |-> Some(<<"d">>)] >>
    /\ currentIndex = 0
    /\ hasOnExit = TRUE
    /\ lastOp = [op |-> "new", idxBefore |-> 0, lenBefore |-> 1,
                 selectCalls |-> <<>>, exitCalls |-> 0, first |-> FALSE]

\* the history after the games command and the choice of the game
PlayingHistory ==
    AddToHistory(AddToHistory(<<>>, "input", <<GamesCommand>>),
                 "output", ShowGamesText)

\* the prompt after the games command
PlayingPromptInit ==
    /\ input = <<>>
    /\ history = PlayingHistory
    /\ tabIndex = 0
    /\ commandHistory = <<GamesCommand>>
    /\ historyIndex = -1
    /\ promptLast = NoPromptEvent

\* the console with the game mounted by its first effect run
HostPlayingInit ==
    /\ isGamesMode = FALSE
    /\ isPlayingGame = TRUE
    /\ selectedGame = "snake"
    /\ gamesTimers = 0
    /\ effects = 1
    /\ attached = AddListener({}, 1)
    /\ loops = StartLoop(<<>>, 1)
    /\ added = 1
    /\ removed = 0
    /\ hostLast = [ev |-> "select", onExitCalls |-> 0, wasMounted |-> FALSE,
                   lenBefore |-> 2, lastBefore |-> Some(PlayingHistory[2])]

\* the game alone, mounted from the games menu; the menu is not touched
SnakeSpecInit ==
    /\ GamesMenuInit /\ SnakeInit /\ HostPlayingInit /\ PlayingPromptInit
    /\ SettingsInit

SnakeSpec == SnakeSpecInit /\ [][SnakeNext]_vars

\* the game alone in long runs: far enough to cross the edges of the board
SnakeRunSpec == SnakeSpecInit /\ [][SnakeRunNext]_vars

\* the console from its construction: games menu, game starts and exits
HostSpecInit ==
    GamesMenuInit /\ SnakeInit /\ HostInit /\ PromptInit /\ SettingsInit

HostSpec == HostSpecInit /\ [][HostNext]_vars

\* the menu alone with lists of up to MaxLen distinct ids
PlainMenuSpecInit ==
    PlainMenuInit /\ SnakeInit /\ HostInit /\ PromptInit /\ SettingsInit

PlainMenuSpec == PlainMenuSpecInit /\ [][PlainMenuNext]_vars

\* the prompt alone: typing, executing, completing and recalling commands
PromptSpecInit ==
    GamesMenuInit /\ SnakeInit /\ HostInit /\ PromptInit /\ SettingsInit

PromptSpec == PromptSpecInit /\ [][PromptNext]_vars

\* the theme system over sessions: settings set, reset, and the page reloaded
SettingsSpecInit ==
    GamesMenuInit /\ SnakeInit /\ HostInit /\ PromptInit /\ SettingsInit

SettingsSpec == SettingsSpecInit /\ [][SettingsNext]_vars

====
